---- MODULE Spec2Model ----
(***************************************************************************)
(* Model of ytd.py: the DownloadThread (a QThread that owns an asyncio     *)
(* event loop), the Worker coroutine scheduled on that loop, the default   *)
(* thread pool that runs stream.download, and the Qt signal connections    *)
(* that carry Worker.progress / Worker.finished to the GUI thread.         *)
(*                                                                         *)
(* Three kinds of thread take steps:                                       *)
(*   - the GUI thread (start, schedule_task, stop, signal delivery),       *)
(*   - the DownloadThread (run: new_event_loop, run_forever and the        *)
(*     handles the loop executes),                                         *)
(*   - the pool threads (stream.download and the progress callback).       *)
(*                                                                         *)
(* Spec and AppSpec follow the threads. Single-purpose specifications      *)
(* follow one part over all its inputs: ProgressSpec the percentages of    *)
(* one download, FormSpec the checks of start_download with is_valid_proxy *)
(* over the texts of the form, SelectSpec the stream selection of one      *)
(* Worker over the stream lists.                                           *)
(***************************************************************************)
EXTENDS Integers, Sequences, FiniteSets

\* ------------------------------------------------------------------ bounds
MaxJobs   == 2    \* start_download calls that reach Worker(...)
MaxStarts == 2    \* QThread.start() calls that spawn the thread
MaxSize   == 50   \* largest stream.filesize of the single-download specification
MaxChunks == 2    \* progress callbacks of the single-download specification
MaxLog    == 1    \* lines start_download itself appends to the log
MaxStreams == 3   \* streams yt.streams lists, in the stream-selection specification
MaxRank   == 2    \* largest resolution / abr of a listed stream

\* [0-9]{1,5}: the most digits a port may have.
PortDigits == 5

Jobs == 1..MaxJobs

\* Inputs of the environment (pytubefix, the user).
OutPaths == {"d1"}          \* out_path of a job
Sizes    == {0, 50}         \* stream.filesize
Remains  == {21}            \* bytes_remaining handed to the progress callback
FirstStepOutcomes ==
    {"ctor_raises", "streams_raise", "no_stream", "filesize_raises", "ok"}

\* Texts are sequences of characters. The characters of the model:
Letters    == {"a", "f", "h", "p", "s", "t", "H"}
Digits     == {"0", "1", "2", "3", "4", "5", "6", "9"}
HostChars  == Letters \cup Digits \cup {"-", "."}       \* [a-zA-Z0-9\-\.]
Whitespace == {" ", "\n"}                                \* what str.strip() removes

\* What the user may have typed into proxy_edit (or a caller may pass to
\* is_valid_proxy): a scheme, a host, a port and a rest, each well or ill formed.
Schemes  == { <<"h","t","t","p",":","/","/">>, <<"h","t","t","p","s",":","/","/">>,
              <<"f","t","p",":","/","/">>, <<"h","t","t","p",":","/">>,
              <<"H","t","t","p",":","/","/">>, <<>> }
Hosts    == { <<>>, <<"a">>, <<"a",".","-","1">>, <<"a","_">>, <<"a"," ","a">> }
Ports    == { <<>>, <<":">>, <<":","1">>, <<":","1","2","3","4","5">>,
              <<":","1","2","3","4","5","6">>, <<":","a">> }
Rests    == { <<>>, <<"/">>, <<"/","a">>, <<" ">>, <<"\n">>, <<"\n","\n">> }
ProxyTexts ==
    {<<>>, <<" ">>} \cup
    {s \o h \o p \o r : s \in Schemes, h \in Hosts, p \in Ports, r \in Rests}

Urls    == { <<>>, <<" ">>, <<"u">> }        \* text of url_edit
Folders == {"", "d1", "ro", "nodir"}         \* text of folder_edit, stripped

\* The file system: "d1" is a directory the process may write to (it is also
\* the current directory), "ro" a directory it may not write to, "nodir" is
\* not a directory.
getcwd          == "d1"
isdir(p)        == p \in {"d1", "ro"}
access_W_OK(p)  == p \in OutPaths

\* A request that passes the checks of start_download.
FilledForm == [url |-> <<"u">>, folder |-> "d1", proxy |-> <<>>]

\* The streams yt.streams may list: progressive (audio and video in one
\* file), audio only, video only; rank is the number in resolution ("720p")
\* or abr ("128kbps"), itag the position in the list.
StreamKinds == {"progressive", "audio", "video_only"}
StreamLists ==
    UNION { [1..n -> [kind : StreamKinds, rank : 1..MaxRank]] : n \in 0..MaxStreams }
WithItags(q) == [i \in 1..Len(q) |-> [itag |-> i, kind |-> q[i].kind, rank |-> q[i].rank]]
NoStream == [itag |-> 0, kind |-> "none", rank |-> 0]         \* None

VARIABLES
    tpc,       \* DownloadThread: "notstarted" | "started" | "loopset" | "serving" | "finished"
    loop,      \* DownloadThread.loop: 0 is None, k > 0 the loop made by the k-th run()
    ready,     \* the handle queue (_ready) of the loop self.loop refers to
    todo,      \* handles left in the current _run_once iteration
    stopping,  \* loop._stopping
    nStarts,   \* how many times QThread.start() spawned the thread
    cpc,       \* GUI thread: "idle" (in the Qt event loop) | "inStop" (blocked in wait())
    api,       \* lifecycle as the caller has driven it: NotStarted/Running/Stopping/Stopped
    nJobs,     \* Workers created so far
    job,       \* per Worker: position of its coroutine and its locals
    emitted,   \* per Worker: the signals it has emitted, in order
    mainq,     \* posted-event queue of the GUI thread (queued signal deliveries)
    received,  \* per Worker: the slot invocations the GUI thread has executed
    form,      \* the texts of url_edit, folder_edit and proxy_edit
    log,       \* the lines start_download itself has appended to self.log
    fmt,       \* Worker.fmt of the Worker whose stream selection is followed
    streams,   \* what yt.streams lists for that Worker
    stream     \* the local variable stream of that Worker's run()

vars == <<tpc, loop, ready, todo, stopping, nStarts, cpc, api,
          nJobs, job, emitted, mainq, received, form, log, fmt, streams, stream>>

threadVars == <<tpc, loop, ready, todo, stopping, nStarts>>
jobVars    == <<nJobs, job, emitted, mainq, received>>
formVars   == <<form, log>>
selVars    == <<fmt, streams, stream>>

\* ----------------------------------------------------------------- helpers
\* job[j].pc: "none" (no such Worker yet), "rejected" (schedule_task raised,
\* res names the exception), "queued" (the run_coroutine_threadsafe callback
\* waits in the loop), "task" (the Task exists, its first step is scheduled),
\* "transfer" (the coroutine awaits stream.download, which runs in the
\* pool), "xferdone" (stream.download has ended, its result is on its way to
\* the loop), "woken" (the Task's wake-up is scheduled), "done" (the
\* coroutine has returned), "abandoned" (pending on a loop nobody runs).
\* loop: the loop the Task belongs to; total, rem: stream.filesize and the
\* bytes_remaining of the last callback.
NoJob == [pc |-> "none", out |-> "", loop |-> 0, total |-> 0, rem |-> 0, res |-> ""]

Progress(pct)  == [kind |-> "P", pct |-> pct, msg |-> "",  dir |-> ""]
Terminal(m, d) == [kind |-> "T", pct |-> 0,   msg |-> m,   dir |-> d]

\* QThread.isRunning(): true from start() until run() has returned.
isRunning == tpc \in {"started", "loopset", "serving"}

\* The pairs (downloaded, total), 0 <= downloaded <= total <= 100, for which
\* the IEEE double downloaded / total * 100 lies just below the exact value,
\* an integer: int() then yields one less than the exact floor.
FloatShort == {<<29, 50>>, <<29, 100>>, <<57, 100>>, <<58, 100>>}

\* A plausible slip: the percentage of what remains instead of what is done.
PyPercentOfRemaining(downloaded, total) ==
    ((total - downloaded) * 100) \div total

\* int(downloaded / total * 100) of _on_progress, for 0 <= downloaded <= total,
\* 0 < total <= 100.
PyPercent(downloaded, total) ==
    IF <<downloaded, total>> \in FloatShort
    THEN (downloaded * 100) \div total - 1
    ELSE (downloaded * 100) \div total

\* str.strip()
RECURSIVE lstrip(_)
lstrip(s) == IF s # <<>> /\ Head(s) \in Whitespace THEN lstrip(Tail(s)) ELSE s
RECURSIVE rstrip(_)
rstrip(s) ==
    IF s # <<>> /\ s[Len(s)] \in Whitespace
    THEN rstrip(SubSeq(s, 1, Len(s) - 1))
    ELSE s
strip(s) == rstrip(lstrip(s))

\* The text s has the word w at position i.
StartsWith(s, i, w) ==
    /\ i + Len(w) - 1 <= Len(s)
    /\ \A k \in 1..Len(w) : s[i + k - 1] = w[k]

\* How many characters of s, from position i on, lie in the class C: what a
\* greedy C+ or C* consumes.
RECURSIVE Run(_, _, _)
Run(s, i, C) == IF i <= Len(s) /\ s[i] \in C THEN 1 + Run(s, i + 1, C) ELSE 0

\* `$` of a Python pattern without re.MULTILINE at position i: the end of
\* the text, or just before a newline that is the last character.
AtDollar(s, i) == i = Len(s) + 1 \/ (i = Len(s) /\ s[i] = "\n")

\* is_valid_proxy(proxy): pattern.match anchors at the start. The host
\* class holds neither ":" nor "\n", so the host is the whole run of host
\* characters; the port group is tried with each count of digits.
is_valid_proxy(proxy) ==
    IF proxy = <<>>
    THEN TRUE                                               \* line 34
    ELSE LET h == IF StartsWith(proxy, 1, <<"h","t","t","p","s",":","/","/">>) THEN 9
                  ELSE IF StartsWith(proxy, 1, <<"h","t","t","p",":","/","/">>) THEN 8
                  ELSE 0
             n == Run(proxy, h, HostChars)
             c == h + n
         IN  /\ h > 0
             /\ n >= 1
             /\ \/ AtDollar(proxy, c)
                \/ /\ c <= Len(proxy)
                   /\ proxy[c] = ":"
                   /\ \E k \in 1..PortDigits :
                        /\ k <= Run(proxy, c + 1, Digits)
                        /\ AtDollar(proxy, c + 1 + k)

\* StreamQuery.filter(progressive=True) / filter(only_audio=True)
filter(q, kind) == SelectSeq(q, LAMBDA s : s.kind = kind)

\* StreamQuery.order_by: a stable ascending sort on the number in the attribute.
RECURSIVE Insert(_, _)
Insert(s, q) ==
    IF q = <<>> THEN <<s>>
    ELSE IF Head(q).rank <= s.rank THEN <<Head(q)>> \o Insert(s, Tail(q))
    ELSE <<s>> \o q
RECURSIVE order_by(_)
order_by(q) ==
    IF q = <<>> THEN <<>>
    ELSE Insert(q[Len(q)], order_by(SubSeq(q, 1, Len(q) - 1)))

\* StreamQuery.desc() and .first()
desc(q)  == [i \in 1..Len(q) |-> q[Len(q) + 1 - i]]
first(q) == IF q = <<>> THEN NoStream ELSE q[1]

\* A plausible slip: the query without .desc().
select_stream_NoDesc(f, q) ==
    first(order_by(filter(q, IF f = "video" THEN "progressive" ELSE "audio")))

\* Lines 70-77: the stream Worker.run selects for fmt f among the streams q.
select_stream(f, q) ==
    first(desc(order_by(filter(q, IF f = "video" THEN "progressive" ELSE "audio"))))

\* signal.emit(...) from a thread other than the GUI thread: the connection
\* of start_download is queued, the call is posted to the GUI thread.
Emit(j, ev) ==
    /\ emitted' = [emitted EXCEPT ![j] = Append(@, ev)]
    /\ mainq'   = Append(mainq, <<j, ev>>)

\* A thread is (or is about to be) inside run_forever of the loop self.loop.
loopServed == tpc \in {"loopset", "serving"}

\* The loop object with identity l is the one a thread serves.
Served(l) == l = loop /\ loopServed

\* loop.call_soon_threadsafe(h) on the loop object with identity l. A loop
\* that was replaced by a later run(), or whose run_forever has returned, is
\* not closed: the call succeeds, but run() never enters that loop again, no
\* thread ever takes the handle, and the model does not keep it.
CallSoonThreadsafe(l, h) ==
    IF Served(l) THEN ready' = Append(ready, h) ELSE UNCHANGED ready

\* The Task of a Worker (or the callback that would create it) is left
\* pending on a loop that no thread serves any more: the coroutine is never
\* run or resumed again.
Abandoned(w) == [NoJob EXCEPT !.pc = "abandoned", !.out = w.out]

\* run_forever of the loop self.loop has returned: what its Tasks become.
\* A download already in its pool thread goes on.
AfterLoopExit(w) ==
    IF w.loop = loop /\ w.pc \in {"queued", "task", "xferdone", "woken"}
    THEN Abandoned(w)
    ELSE w

\* The window as constructed, with a request typed in that passes the
\* checks of start_download; the single-purpose specifications below start
\* from their own states.
Init ==
    /\ tpc = "notstarted"
    /\ loop = 0
    /\ ready = <<>>
    /\ todo = 0
    /\ stopping = FALSE
    /\ nStarts = 0
    /\ cpc = "idle"
    /\ api = "NotStarted"
    /\ nJobs = 0
    /\ job = [j \in Jobs |-> NoJob]
    /\ emitted = [j \in Jobs |-> <<>>]
    /\ mainq = <<>>
    /\ received = [j \in Jobs |-> <<>>]
    /\ form = FilledForm
    /\ log = <<>>
    /\ fmt = "video"
    /\ streams = <<>>
    /\ stream = NoStream

\* ------------------------------------------------------- GUI thread: calls
\* QThread.start(), as called by MainWindow.__init__: spawns the thread when
\* it is not running (also after it has finished), does nothing when it is.
start ==
    /\ cpc = "idle"
    /\ IF isRunning
       THEN UNCHANGED <<tpc, nStarts, api>>
       ELSE /\ nStarts < MaxStarts
            /\ tpc' = "started"
            /\ nStarts' = nStarts + 1
            /\ api' = "Running"
    /\ UNCHANGED <<loop, ready, todo, stopping, cpc, jobVars,
                   formVars, selVars>>

\* schedule_task raised err: the coroutine of the Worker is never run.
Rejected(d, err) == [NoJob EXCEPT !.pc = "rejected", !.out = d, !.res = err]

\* DownloadThread.schedule_task(coro) for the coroutine of Worker j.
schedule_task(j, d) ==
    IF ~isRunning
    THEN /\ job' = [job EXCEPT ![j] = Rejected(d, "RuntimeError")]      \* line 127
         /\ UNCHANGED ready
    ELSE IF loop = 0
    THEN \* run_coroutine_threadsafe(coro, None): None.call_soon_threadsafe
         /\ job' = [job EXCEPT ![j] = Rejected(d, "AttributeError")]
         /\ UNCHANGED ready
    ELSE /\ job' = [job EXCEPT ![j] =
                        IF Served(loop)
                        THEN [NoJob EXCEPT !.pc = "queued", !.out = d, !.loop = loop]
                        ELSE Abandoned([out |-> d])]
         /\ CallSoonThreadsafe(loop, <<"create", j>>)

\* The line the checks of start_download (lines 221-236) append to the log
\* for the request in the form, "" when the request passes them.
CheckLine ==
    LET url      == strip(form.url)
        out_path == IF form.folder # "" THEN form.folder ELSE getcwd
        proxy    == strip(form.proxy)
    IN  IF url = <<>> THEN "url_required"
        ELSE IF ~isdir(out_path) THEN "no_such_dir"
        ELSE IF ~access_W_OK(out_path) THEN "not_writable"
        ELSE IF proxy # <<>> /\ ~is_valid_proxy(proxy) THEN "bad_proxy"
        ELSE ""

\* A plausible slip: start_download without the proxy check of line 234.
start_download_NoProxyCheck ==
    /\ cpc = "idle"
    /\ LET url      == strip(form.url)
           out_path == IF form.folder # "" THEN form.folder ELSE getcwd
           line     == IF url = <<>> THEN "url_required"
                       ELSE IF ~isdir(out_path) THEN "no_such_dir"
                       ELSE IF ~access_W_OK(out_path) THEN "not_writable"
                       ELSE ""
       IN  IF line # ""
           THEN /\ Len(log) < MaxLog
                /\ log' = Append(log, line)
                /\ UNCHANGED <<ready, nJobs, job>>
           ELSE /\ nJobs < MaxJobs
                /\ nJobs' = nJobs + 1
                /\ schedule_task(nJobs + 1, out_path)
                /\ UNCHANGED log
    /\ UNCHANGED <<tpc, loop, todo, stopping, nStarts, cpc, api,
                   emitted, mainq, received, form, selVars>>

\* MainWindow.start_download: the checks, then Worker(...), the two
\* connects and schedule_task(worker.run()).
start_download ==
    /\ cpc = "idle"
    /\ IF CheckLine # ""
       THEN /\ Len(log) < MaxLog
            /\ log' = Append(log, CheckLine)
            /\ UNCHANGED <<ready, nJobs, job>>
       ELSE /\ nJobs < MaxJobs
            /\ nJobs' = nJobs + 1
            /\ schedule_task(nJobs + 1,
                             IF form.folder # "" THEN form.folder ELSE getcwd)
            /\ UNCHANGED log
    /\ UNCHANGED <<tpc, loop, todo, stopping, nStarts, cpc, api,
                   emitted, mainq, received, form, selVars>>

\* A plausible slip: stop() without the isRunning() test.
stop_NoRunningTest ==
    /\ cpc = "idle"
    /\ IF loop # 0
       THEN /\ CallSoonThreadsafe(loop, <<"stop", 0>>)
            /\ cpc' = "inStop"
            /\ api' = IF api = "Running" THEN "Stopping" ELSE api
       ELSE /\ UNCHANGED <<ready, cpc>>
            /\ api' = IF api = "Running" THEN "Stopped" ELSE api
    /\ UNCHANGED <<tpc, loop, todo, stopping, nStarts, jobVars,
                   formVars, selVars>>

\* DownloadThread.stop() up to the point where it returns or blocks in wait().
stop ==
    /\ cpc = "idle"
    /\ IF loop # 0 /\ isRunning
       THEN /\ CallSoonThreadsafe(loop, <<"stop", 0>>)
            /\ cpc' = "inStop"
            /\ api' = IF api = "Running" THEN "Stopping" ELSE api
       ELSE /\ UNCHANGED <<ready, cpc>>
            /\ api' = IF api = "Running" THEN "Stopped" ELSE api
    /\ UNCHANGED <<tpc, loop, todo, stopping, nStarts, jobVars,
                   formVars, selVars>>

\* self.wait() returns: the thread has finished.
stop_wait_returns ==
    /\ cpc = "inStop"
    /\ tpc = "finished"
    /\ cpc' = "idle"
    /\ api' = IF api = "Stopping" THEN "Stopped" ELSE api
    /\ UNCHANGED <<threadVars, jobVars,
                   formVars, selVars>>

\* A plausible slip: delivery that does not keep the posting order.
DeliverAnyQueued ==
    /\ cpc = "idle"
    /\ \E n \in 1..Len(mainq) :
         /\ received' = [received EXCEPT ![mainq[n][1]] = Append(@, mainq[n][2])]
         /\ mainq' = [i \in 1..(Len(mainq) - 1) |->
                          IF i < n THEN mainq[i] ELSE mainq[i + 1]]
    /\ UNCHANGED <<threadVars, cpc, api, nJobs, job, emitted,
                   formVars, selVars>>

\* The Qt event loop of the GUI thread runs the next queued slot call
\* (progress_bar.setValue or the log.append lambda).
Deliver ==
    /\ cpc = "idle"
    /\ mainq # <<>>
    /\ LET j  == Head(mainq)[1]
           ev == Head(mainq)[2]
       IN  received' = [received EXCEPT ![j] = Append(@, ev)]
    /\ mainq' = Tail(mainq)
    /\ UNCHANGED <<threadVars, cpc, api, nJobs, job, emitted,
                   formVars, selVars>>

\* ------------------------------------------------------ DownloadThread.run
run_new_event_loop ==
    /\ tpc = "started"
    /\ tpc' = "loopset"
    /\ loop' = nStarts
    /\ ready' = <<>>
    /\ todo' = 0
    /\ stopping' = FALSE
    /\ UNCHANGED <<nStarts, cpc, api, jobVars,
                   formVars, selVars>>

run_run_forever ==
    /\ tpc = "loopset"
    /\ tpc' = "serving"
    /\ UNCHANGED <<loop, ready, todo, stopping, nStarts, cpc, api, jobVars,
                   formVars, selVars>>

\* _run_once: the handles that are ready now make up this iteration.
run_once ==
    /\ tpc = "serving"
    /\ todo = 0
    /\ ~stopping
    /\ ready # <<>>
    /\ todo' = Len(ready)
    /\ UNCHANGED <<tpc, loop, ready, stopping, nStarts, cpc, api, jobVars,
                   formVars, selVars>>

\* run_forever returns after the iteration in which loop.stop() ran (and
\* clears _stopping); run() returns and the QThread is finished. The handles
\* still queued are never taken.
run_forever_returns ==
    /\ tpc = "serving"
    /\ todo = 0
    /\ stopping
    /\ tpc' = "finished"
    /\ stopping' = FALSE
    /\ ready' = <<>>
    /\ job' = [j \in Jobs |-> AfterLoopExit(job[j])]
    /\ UNCHANGED <<loop, todo, nStarts, cpc, api, nJobs, emitted, mainq, received,
                   formVars, selVars>>

\* The loop thread takes the next handle h of the current iteration.
Takes(h) ==
    /\ tpc = "serving"
    /\ todo > 0
    /\ Head(ready) = h
    /\ todo' = todo - 1

\* The callback of run_coroutine_threadsafe: ensure_future(coro) makes the
\* Task, whose first step is scheduled with call_soon.
handle_create(j) ==
    /\ Takes(<<"create", j>>)
    /\ job' = [job EXCEPT ![j].pc = "task"]
    /\ ready' = Append(Tail(ready), <<"step", j>>)
    /\ UNCHANGED <<tpc, loop, stopping, nStarts, cpc, api,
                   nJobs, emitted, mainq, received,
                   formVars, selVars>>

\* loop.stop()
handle_stop ==
    /\ Takes(<<"stop", 0>>)
    /\ stopping' = TRUE
    /\ ready' = Tail(ready)
    /\ UNCHANGED <<tpc, loop, nStarts, cpc, api, jobVars,
                   formVars, selVars>>

\* The executor future's result reaches the asyncio future the Task awaits;
\* the Task's wake-up is scheduled with call_soon.
handle_setres(j) ==
    /\ Takes(<<"setres", j>>)
    /\ job' = [job EXCEPT ![j].pc = "woken"]
    /\ ready' = Append(Tail(ready), <<"step", j>>)
    /\ UNCHANGED <<tpc, loop, stopping, nStarts, cpc, api,
                   nJobs, emitted, mainq, received,
                   formVars, selVars>>

\* ------------------------------------------------------------- Worker.run
\* The coroutine has returned: its locals are gone.
Finished(w) == [NoJob EXCEPT !.pc = "done", !.out = w.out]

\* A plausible slip: run_in_executor is not awaited, line 102 follows at once.
run_first_step_NoAwait(j, o, size) ==
    IF o = "ctor_raises"
    THEN /\ Emit(j, Terminal("connerr", ""))
         /\ job' = [job EXCEPT ![j] = Finished(job[j])]
    ELSE IF o \in {"streams_raise", "no_stream", "filesize_raises"}
    THEN /\ Emit(j, Terminal("dlerr", ""))
         /\ job' = [job EXCEPT ![j] = Finished(job[j])]
    ELSE /\ job' = [job EXCEPT ![j].pc = "transfer",
                               ![j].total = size, ![j].rem = size]
         /\ Emit(j, Terminal("saved", job[j].out))

\* First step of the coroutine, lines 59-101, run by the loop thread in one
\* handle: YouTube(...), the stream query, stream.filesize, run_in_executor.
run_first_step(j, o, size) ==
    IF o = "ctor_raises"
    THEN /\ Emit(j, Terminal("connerr", ""))                  \* line 66
         /\ job' = [job EXCEPT ![j] = Finished(job[j])]
    ELSE IF o \in {"streams_raise", "no_stream", "filesize_raises"}
    THEN /\ Emit(j, Terminal("dlerr", ""))                    \* line 105
         /\ job' = [job EXCEPT ![j] = Finished(job[j])]
    ELSE /\ job' = [job EXCEPT ![j].pc = "transfer",          \* line 94
                               ![j].total = size, ![j].rem = size]
         /\ UNCHANGED <<emitted, mainq>>

\* A plausible slip: an exception of the first step is not caught in the
\* coroutine and brings the loop down.
handle_first_step_Uncaught(j, Q) ==
    /\ Takes(<<"step", j>>)
    /\ job[j].pc = "task"
    /\ \E q \in Q : /\ run_first_step(j, q.o, q.size)
                    /\ stream' = q.stream
                    /\ stopping' = (q.o # "ok")
    /\ ready' = Tail(ready)
    /\ UNCHANGED <<tpc, loop, nStarts, cpc, api, nJobs, received,
                   formVars, fmt, streams>>

\* The loop thread runs the first step of Worker j; Q holds what the step
\* may meet: the outcome o, the stream it selects and that stream's filesize.
handle_first_step_with(j, Q) ==
    /\ Takes(<<"step", j>>)
    /\ job[j].pc = "task"
    /\ \E q \in Q : /\ run_first_step(j, q.o, q.size)
                    /\ stream' = q.stream
    /\ ready' = Tail(ready)
    /\ UNCHANGED <<tpc, loop, stopping, nStarts, cpc, api, nJobs, received,
                   formVars, fmt, streams>>

\* Any outcome; which stream was selected is not followed.
handle_first_step(j) ==
    handle_first_step_with(j, [o : FirstStepOutcomes, size : Sizes, stream : {stream}])

\* What the await of run_in_executor can deliver to the coroutine: the
\* exception of the progress callback when it raised, else the return of
\* stream.download or an exception of its own (disk, connection).
AwaitOutcomes(w) ==
    IF w.res = "callback_raised" THEN {"raised"} ELSE {"returned", "raised"}

\* The coroutine resumes after the await: line 102, or line 105 when
\* stream.download raised.
run_resume(j, res) ==
    /\ Emit(j, IF res = "returned"
               THEN Terminal("saved", job[j].out)
               ELSE Terminal("dlerr", ""))
    /\ job' = [job EXCEPT ![j] = Finished(job[j])]

handle_resume(j) ==
    /\ Takes(<<"step", j>>)
    /\ job[j].pc = "woken"
    /\ \E res \in AwaitOutcomes(job[j]) : run_resume(j, res)
    /\ ready' = Tail(ready)
    /\ UNCHANGED <<tpc, loop, stopping, nStarts, cpc, api, nJobs, received,
                   formVars, selVars>>

\* ------------------------------------------------------------ pool thread
\* stream.download ends (returns or raises) in its pool thread; the executor
\* future hands the result to the loop the Task runs on. Whether it returned
\* or raised is seen by the coroutine when it resumes (AwaitOutcomes); res
\* records only what the callback fixed.
download_ends(j, res) ==
    /\ job' = [job EXCEPT ![j] =
                   IF Served(job[j].loop)
                   THEN [@ EXCEPT !.pc = "xferdone", !.res = res, !.rem = 0,
                                  !.total = 0]
                   ELSE Abandoned(@)]
    /\ CallSoonThreadsafe(job[j].loop, <<"setres", j>>)

\* _on_progress(stream_, chunk, bytes_remaining) called by stream.download.
on_progress(j, bytes_remaining) ==
    IF job[j].total = 0
    THEN /\ download_ends(j, "callback_raised")        \* ZeroDivisionError
         /\ UNCHANGED <<emitted, mainq>>
    ELSE /\ job' = [job EXCEPT ![j].rem = bytes_remaining]
         /\ Emit(j, Progress(PyPercent(job[j].total - bytes_remaining,
                                       job[j].total)))
         /\ UNCHANGED ready

\* stream.download, in its pool thread, calls the progress callback with
\* one of the values R for bytes_remaining.
pool_progress_in(j, R) ==
    /\ job[j].pc = "transfer"
    /\ \E r \in R : on_progress(j, r)
    /\ UNCHANGED <<tpc, loop, todo, stopping, nStarts, cpc, api,
                   nJobs, received,
                   formVars, selVars>>

\* Each chunk is non-empty: bytes_remaining falls from call to call. A
\* stream whose filesize is 0 may still deliver a chunk.
pool_progress(j) ==
    pool_progress_in(j, {r \in Remains : job[j].total = 0 \/ r < job[j].rem})

pool_download_ends(j) ==
    /\ job[j].pc = "transfer"
    /\ download_ends(j, "")
    /\ UNCHANGED <<tpc, loop, todo, stopping, nStarts, cpc, api,
                   nJobs, emitted, mainq, received,
                   formVars, selVars>>

\* ---------------------------------------------------------- specification
GuiThread ==
    \/ start
    \/ start_download
    \/ stop
    \/ stop_wait_returns
    \/ Deliver

LoopThread ==
    \/ run_new_event_loop
    \/ run_run_forever
    \/ run_once
    \/ run_forever_returns
    \/ handle_stop
    \/ \E j \in Jobs : handle_create(j)
    \/ \E j \in Jobs : handle_setres(j)
    \/ \E j \in Jobs : handle_first_step(j)
    \/ \E j \in Jobs : handle_resume(j)

PoolThreads ==
    \/ \E j \in Jobs : pool_progress(j)
    \/ \E j \in Jobs : pool_download_ends(j)

Next == GuiThread \/ LoopThread \/ PoolThreads

Spec == Init /\ [][Next]_vars

\* The application as MainWindow drives the thread: start() is called once,
\* by MainWindow.__init__.
AppGuiThread ==
    \/ (tpc = "notstarted" /\ start)
    \/ start_download
    \/ stop
    \/ stop_wait_returns
    \/ Deliver

AppNext == AppGuiThread \/ LoopThread \/ PoolThreads

AppSpec == Init /\ [][AppNext]_vars

\* The operating system schedules the DownloadThread and the pool threads,
\* and wait() returns once the thread has finished; the GUI thread's calls
\* are the user's and carry no fairness.
AppFairSpec == AppSpec /\ WF_vars(LoopThread) /\ WF_vars(PoolThreads)
                       /\ WF_vars(stop_wait_returns)

\* The application when the window is closed only while downloads are
\* running in the pool: closeEvent calls stop() in a state where every
\* Worker created so far is in its transfer, has finished or was refused,
\* and at least one is in its transfer.
stop_during_transfer ==
    /\ \E j \in Jobs : job[j].pc = "transfer"
    /\ \A j \in Jobs : job[j].pc \in {"none", "rejected", "transfer", "done"}
    /\ stop

TransferStopNext ==
    \/ (tpc = "notstarted" /\ start)
    \/ start_download
    \/ stop_during_transfer
    \/ stop_wait_returns
    \/ Deliver
    \/ LoopThread
    \/ PoolThreads

TransferStopFairSpec ==
    /\ Init /\ [][TransferStopNext]_vars
    /\ WF_vars(LoopThread) /\ WF_vars(PoolThreads) /\ WF_vars(stop_wait_returns)

\* ------------------------------------------- one download, all its chunks
\* The state in which the first step of Worker 1 has just handed
\* stream.download to the pool, for every stream.filesize up to MaxSize.
ProgressInit ==
    /\ tpc = "serving"
    /\ loop = 1
    /\ ready = <<>>
    /\ todo = 0
    /\ stopping = FALSE
    /\ nStarts = 1
    /\ cpc = "idle"
    /\ api = "Running"
    /\ nJobs = 1
    /\ \E size \in 0..MaxSize, d \in OutPaths :
         job = [j \in Jobs |->
                  IF j = 1
                  THEN [NoJob EXCEPT !.pc = "transfer", !.out = d, !.loop = 1,
                                     !.total = size, !.rem = size]
                  ELSE NoJob]
    /\ emitted = [j \in Jobs |-> <<>>]
    /\ mainq = <<>>
    /\ received = [j \in Jobs |-> <<>>]
    /\ form = FilledForm
    /\ log = <<>>
    /\ fmt = "video"
    /\ streams = <<>>
    /\ stream = NoStream

\* stream.download calls the progress callback with any bytes_remaining
\* that is not above the previous one.
ProgressCallback ==
    /\ Len(emitted[1]) < MaxChunks
    /\ pool_progress_in(1, {r \in 0..MaxSize : r <= job[1].rem})

ProgressNext == ProgressCallback \/ pool_download_ends(1)

ProgressSpec == ProgressInit /\ [][ProgressNext]_vars

\* ------------------------------------------------ one form, its requests
\* The thread started by MainWindow.__init__ serves its loop; the user has
\* typed any of the texts into the three fields and clicks a download button.
FormInit ==
    /\ tpc = "serving"
    /\ loop = 1
    /\ ready = <<>>
    /\ todo = 0
    /\ stopping = FALSE
    /\ nStarts = 1
    /\ cpc = "idle"
    /\ api = "Running"
    /\ nJobs = 0
    /\ job = [j \in Jobs |-> NoJob]
    /\ emitted = [j \in Jobs |-> <<>>]
    /\ mainq = <<>>
    /\ received = [j \in Jobs |-> <<>>]
    /\ form \in [url : Urls, folder : Folders, proxy : ProxyTexts]
    /\ log = <<>>
    /\ fmt = "video"
    /\ streams = <<>>
    /\ stream = NoStream

FormNext == start_download

FormSpec == FormInit /\ [][FormNext]_vars

\* --------------------------------------------- one Worker, its selection
\* The Task of Worker 1 is about to take its first step; yt.streams will
\* list any of the stream lists, and either button was clicked.
SelectInit ==
    /\ tpc = "serving"
    /\ loop = 1
    /\ ready = << <<"step", 1>> >>
    /\ todo = 0
    /\ stopping = FALSE
    /\ nStarts = 1
    /\ cpc = "idle"
    /\ api = "Running"
    /\ nJobs = 1
    /\ job = [j \in Jobs |->
                IF j = 1
                THEN [NoJob EXCEPT !.pc = "task", !.out = getcwd, !.loop = 1]
                ELSE NoJob]
    /\ emitted = [j \in Jobs |-> <<>>]
    /\ mainq = <<>>
    /\ received = [j \in Jobs |-> <<>>]
    /\ form = FilledForm
    /\ log = <<>>
    /\ fmt \in {"video", "audio"}
    /\ \E q \in StreamLists : streams = WithItags(q)
    /\ stream = NoStream

\* What the first step meets once YouTube(...) and yt.streams have
\* succeeded: lines 78-79 when nothing is selected, else the selected stream
\* and its filesize.
SelectionOutcomes ==
    LET s == select_stream(fmt, streams)
    IN  IF s = NoStream
        THEN {[o |-> "no_stream", size |-> 0, stream |-> NoStream]}
        ELSE [o : {"ok"}, size : Sizes, stream : {s}]

select_first_step == handle_first_step_with(1, SelectionOutcomes)

SelectNext ==
    \/ run_once
    \/ select_first_step
    \/ pool_progress(1)
    \/ pool_download_ends(1)
    \/ handle_setres(1)
    \/ handle_resume(1)

SelectSpec == SelectInit /\ [][SelectNext]_vars

\* ================================================================= claims
Accepted(j)    == job[j].pc \notin {"none", "rejected"}
HasTerminal(j) == \E i \in 1..Len(emitted[j]) : emitted[j][i].kind = "T"

\* The notifications of Worker j that are posted to the GUI thread and not
\* yet delivered, in queue order.
Pending(j) ==
    LET q == SelectSeq(mainq, LAMBDA m : m[1] = j)
    IN  [i \in 1..Len(q) |-> q[i][2]]

\* C1: every job that schedule_task accepted eventually has its Terminal
\* notification (Worker.finished) emitted, whatever the GUI thread does later.
C1_AcceptedJobGetsTerminal ==
    \A j \in Jobs : Accepted(j) ~> HasTerminal(j)

\* C2: in every reachable state a job has emitted at most one Terminal, and
\* the Terminal is the last notification it has emitted.
C2_TerminalOnceAndLast ==
    \A j \in Jobs : \A i \in 1..Len(emitted[j]) :
        emitted[j][i].kind = "T" => i = Len(emitted[j])

C2_Witness ==
    \E j \in Jobs : /\ Len(emitted[j]) >= 2
                    /\ emitted[j][1].kind = "P"
                    /\ emitted[j][Len(emitted[j])].kind = "T"

\* C3: with two or more jobs in flight, what the GUI thread's slots receive
\* for one job is never indistinguishable from what they receive for another
\* job, so that each notification can be attributed to its job.
C3_NotificationsAttributable ==
    \A j, k \in Jobs : j # k =>
        \A a \in 1..Len(received[j]), b \in 1..Len(received[k]) :
            received[j][a] # received[k][b]

\* C4: per job, the GUI thread receives the notifications in the order the
\* job emitted them and none is lost: what was emitted is what was received
\* followed by what is still queued, whatever other jobs emit in between.
C4_PerJobOrderNoneLost ==
    \A j \in Jobs : emitted[j] = received[j] \o Pending(j)

C4_Witness ==
    \E j, k \in Jobs :
        /\ j # k
        /\ Len(received[j]) = 2
        /\ received[j][1].kind = "P"
        /\ received[j][2].kind = "T"
        /\ Len(received[k]) >= 1
        /\ Len(Pending(k)) >= 1

\* C5: the Progress percentages a job emits are non-decreasing and lie in
\* 0..100, for falling bytes_remaining between 0 and the stream's size.
C5_ProgressMonotoneBounded ==
    \A j \in Jobs : \A a, b \in 1..Len(emitted[j]) :
        (a <= b /\ emitted[j][a].kind = "P" /\ emitted[j][b].kind = "P") =>
            /\ emitted[j][a].pct <= emitted[j][b].pct
            /\ emitted[j][a].pct >= 0
            /\ emitted[j][b].pct <= 100

C5_Witness ==
    /\ Len(emitted[1]) = 2
    /\ emitted[1][1] = Progress(57)
    /\ emitted[1][2] = Progress(100)

\* C6: schedule_task called before start() or after stop() has returned
\* raises the not-running RuntimeError and schedules nothing.
C6_SubmitOutsideRunningRejected ==
    [][(start_download /\ api \in {"NotStarted", "Stopped"}) =>
           /\ job'[nJobs + 1].pc = "rejected"
           /\ job'[nJobs + 1].res = "RuntimeError"
           /\ ready' = ready]_vars

\* C7: schedule_task called after start() has returned and before stop() is
\* called succeeds: the job is handed to the loop of the background thread.
C7_SubmitWhileRunningAccepted ==
    [][(start_download /\ api = "Running") =>
           /\ job'[nJobs + 1].pc = "queued"
           /\ ready' = Append(ready, <<"create", nJobs + 1>>)]_vars

\* C8: once stop() called on a Running executor has returned, the
\* background thread has exited.
C8_StoppedMeansThreadExited ==
    api = "Stopped" => tpc = "finished"

C10_OneThreadOneLoop ==
    [][/\ (start /\ api # "NotStarted") => UNCHANGED <<tpc, nStarts>>
       /\ loop' # loop => loop = 0]_vars

\* C11: when stop() is called while stream.download of a job runs in the
\* pool, the download is not cancelled, and after it has ended the job's
\* Terminal notification (Worker.finished) is still emitted. (Where stop()
\* is only called during transfers, a job in its transfer while the GUI
\* thread is inside stop() was in its transfer when stop() was called.)
C11_TransferAtStopGetsTerminal ==
    \A j \in Jobs : (job[j].pc = "transfer" /\ cpc = "inStop") ~> HasTerminal(j)

\* Worker j fails in this step: it emits a Terminal that is not the
\* success message, or its progress callback raises.
JobFails(j) ==
    \/ /\ Len(emitted'[j]) = Len(emitted[j]) + 1
       /\ emitted'[j][Len(emitted'[j])].kind = "T"
       /\ emitted'[j][Len(emitted'[j])].msg # "saved"
    \/ /\ job[j].res # "callback_raised"
       /\ job'[j].res = "callback_raised"

\* The handles in the queue q that are not of Worker j.
OthersReady(j, q) == SelectSeq(q, LAMBDA h : h[2] # j)

\* C12: a failure of one job (YouTube(...) raises, the stream query raises
\* or finds nothing, stream.download raises, the progress callback raises)
\* leaves the DownloadThread and its loop running and changes nothing of any
\* other job: not its Worker's position, not what it has emitted, not its
\* handles in the loop.
C12_JobFailureIsolated ==
    [][\A j \in Jobs : JobFails(j) =>
           /\ UNCHANGED <<tpc, loop, stopping, cpc, api>>
           /\ OthersReady(j, ready') = OthersReady(j, ready)
           /\ \A k \in Jobs \ {j} : /\ job'[k] = job[k]
                                     /\ emitted'[k] = emitted[k]]_vars

C12_Witness ==
    \E j, k \in Jobs :
        /\ j # k
        /\ tpc = "serving"
        /\ ~stopping
        /\ emitted[j] = <<Terminal("connerr", "")>>
        /\ Len(received[j]) = 1
        /\ Len(emitted[k]) = 2
        /\ emitted[k][2] = Terminal("saved", "d1")

\* The text p has the form of the claim: http or https, then ://, then a
\* non-empty host of letters, digits, hyphens and dots, then nothing more
\* or a colon and 1 to 5 digits.
HasProxyForm(p) ==
    \E w \in {<<"h","t","t","p">>, <<"h","t","t","p","s">>} :
        /\ StartsWith(p, 1, w \o <<":","/","/">>)
        /\ LET r == SubSeq(p, Len(w) + 4, Len(p))
           IN  \E n \in 1..Len(r) :
                 /\ \A i \in 1..n : r[i] \in HostChars
                 /\ \/ n = Len(r)
                    \/ /\ r[n + 1] = ":"
                       /\ Len(r) - n - 1 \in 1..PortDigits
                       /\ \A i \in (n + 2)..Len(r) : r[i] \in Digits

\* C13: is_valid_proxy(p) is true exactly when p is empty or has the form
\* scheme://host or scheme://host:port described above, and false for
\* every other text.
C13_ValidExactlyProxyForm ==
    is_valid_proxy(form.proxy) <=> (form.proxy = <<>> \/ HasProxyForm(form.proxy))

\* C14: when the resolution of a job fails, in YouTube(...) or when
\* yt.streams fetches the stream list, the job's first step ends the job with
\* exactly one notification, the Terminal with the connection-error
\* (resolution) message, and hands nothing to the pool.
C14_ResolutionFailureTagged ==
    [][\A j \in Jobs : \A o \in {"ctor_raises", "streams_raise"} :
           (/\ Takes(<<"step", j>>)
            /\ job[j].pc = "task"
            /\ run_first_step(j, o, 0)) =>
               /\ emitted'[j] = <<Terminal("connerr", "")>>
               /\ job'[j].pc = "done"]_vars

\* The positions in yt.streams of the streams of the requested kind: files
\* with audio and video for "video", audio-only files for "audio".
OfRequestedKind ==
    {i \in 1..Len(streams) :
        streams[i].kind = IF fmt = "video" THEN "progressive" ELSE "audio"}

\* C15: once the first step of the Worker has run on a resolved stream list,
\* the selected stream is one of the listed streams of the requested kind and
\* none of that kind has a higher rank, whatever streams of other kinds are
\* listed; when no stream of the requested kind is listed, nothing is
\* selected and the job has ended with exactly one notification, the failure
\* Terminal, without a transfer.
C15_SelectsBestOfKind ==
    job[1].pc # "task" =>
        IF OfRequestedKind = {}
        THEN /\ stream = NoStream
             /\ emitted[1] = <<Terminal("dlerr", "")>>
             /\ job[1].pc = "done"
        ELSE /\ \E i \in OfRequestedKind : stream = streams[i]
             /\ \A i \in OfRequestedKind : streams[i].rank <= stream.rank

C15_Witness ==
    /\ fmt = "audio"
    /\ Len(streams) = 3
    /\ streams[1].kind = "audio" /\ streams[1].rank = 2
    /\ streams[2].kind = "progressive" /\ streams[2].rank = 2
    /\ streams[3].kind = "audio" /\ streams[3].rank = 1
    /\ stream = streams[1]
    /\ job[1].pc = "transfer"

\* C16: the blocking calls of a job are never made by the loop thread: the
\* step that runs YouTube(...), the stream query and stream.filesize of a
\* Worker (it takes the Worker from "task" to its transfer or to its end) is
\* not a handle the DownloadThread takes from its loop, where it would hold
\* up the handles behind it, the steps of other jobs and loop.stop included.
C16_NoBlockingCallOnLoopThread ==
    [][\A j \in Jobs :
           (job[j].pc = "task" /\ job'[j].pc \in {"transfer", "done"}) =>
               ~Takes(<<"step", j>>)]_vars

\* floor(downloaded / total * 100) clamped to 0..100, for total > 0.
ClampedFloorPercent(downloaded, total) ==
    LET p == (downloaded * 100) \div total
    IN  IF p < 0 THEN 0 ELSE IF p > 100 THEN 100 ELSE p

\* C17: every call of the progress callback of a stream whose filesize is
\* 0 or more emits one Progress notification, with a percent in 0..100 that
\* for a filesize above 0 is floor(downloaded / total * 100); the call does
\* not raise, so the download goes on.
C17_CallbackEmitsFloorPercent ==
    [][ProgressCallback =>
           /\ job'[1].pc = "transfer"
           /\ Len(emitted'[1]) = Len(emitted[1]) + 1
           /\ LET e == emitted'[1][Len(emitted'[1])]
              IN  /\ e.kind = "P"
                  /\ e.pct \in 0..100
                  /\ job[1].total > 0 =>
                       e.pct = ClampedFloorPercent(job[1].total - job'[1].rem,
                                                   job[1].total)]_vars

\* C18: stop() called while the thread runs returns in the end, and it waits
\* for the thread only, not for the downloads in the pool: whenever the GUI
\* thread is blocked in wait(), the thread has finished or is about to be
\* stopped (loop.stop has run, or waits in the queue of the loop the thread
\* serves), whatever the pool threads are doing.
C18_StopWaitsOnlyForThread ==
    cpc = "inStop" =>
        \/ tpc = "finished"
        \/ loopServed /\ stopping
        \/ loopServed /\ \E i \in 1..Len(ready) : ready[i] = <<"stop", 0>>

\* C19: the downloads are processed sequentially: at no time are the
\* downloads (stream.download) of two Workers in progress at once.
C19_DownloadsSequential ==
    \A j, k \in Jobs :
        (job[j].pc = "transfer" /\ job[k].pc = "transfer") => j = k

\* The request in the form is one the claim calls rejected: the URL is
\* empty, the destination is not an existing writable directory, or the
\* proxy is not empty and is_valid_proxy is false for it.
RejectedRequest ==
    LET dest == IF form.folder # "" THEN form.folder ELSE getcwd
    IN  \/ strip(form.url) = <<>>
        \/ ~(isdir(dest) /\ access_W_OK(dest))
        \/ strip(form.proxy) # <<>> /\ ~is_valid_proxy(strip(form.proxy))

\* C20: a start_download call on a rejected request creates no Worker,
\* schedules nothing on the loop, leaves the thread and its lifecycle as
\* they were, and emits or delivers no notification.
C20_RejectedBeforeAnyJob ==
    [][(start_download /\ RejectedRequest) =>
           UNCHANGED <<threadVars, cpc, api, jobVars>>]_vars

C20_Witness ==
    /\ log = <<"bad_proxy">>
    /\ form.proxy = <<"f","t","p",":","/","/","a">>
    /\ nJobs = 0
    /\ ready = <<>>

====
